---- MODULE Spec2Model ----
(***************************************************************************)
(* Moving-average strategy analyzer (src/data_processor.py) and its        *)
(* scheduler (src/scheduler.py).                                           *)
(*                                                                         *)
(* Specifications over one set of variables:                               *)
(*   Spec            run_full_analysis: the fetch, the loop over the four  *)
(*                   strategies with one find_optimal_ma call each, the    *)
(*                   metadata entry.                                       *)
(*   SpecFetch       run_full_analysis up to its strategy loop: the retry  *)
(*                   loop and the validation of fetch_crypto_data.         *)
(*   SpecSweep       one find_optimal_ma call, thread by thread:           *)
(*                   submission, pool threads, in-order collection with    *)
(*                   the per-future timeout, executor shutdown,            *)
(*                   StrategyResult.                                       *)
(*   SpecSweepLive   the same under the scheduling the interpreter gives:  *)
(*                   every thread that can proceed does, except a trial    *)
(*                   that hangs.                                           *)
(*   SpecBacktest    backtest_ma_strategy, statement by statement, on      *)
(*                   bounded price data, in exact rational arithmetic.     *)
(*   SpecShortFrame  the same on two-row frames with prices around 100.    *)
(*   SpecRally       the same on five-row frames with a jump and a slow    *)
(*                   fall, under a window of 3.                            *)
(*   SpecRecent      its slicing of the recent window, on long series.     *)
(*   SpecScheduler   run_analysis called again and again, with             *)
(*                   save_results writing the result file.                 *)
(* A Python dict is a set of <<key, value>> pairs; a rational is a pair    *)
(* <<numerator, denominator>> in lowest terms with denominator > 0, and    *)
(* NaN is <<0, 0>>.                                                        *)
(***************************************************************************)
EXTENDS Integers, Sequences, FiniteSets, TLC

\* ------------------------------------------------------------------ bounds
\* number of candidate windows of a range that the model sweeps
NumTrials == 2
\* largest non-negative combined score a trial can report
MaxScore == 1

\* ------------------------------------------------------- program constants
SentinelScore == -999
DefaultMa == 20
max_workers == 4
SingleLo == 5
SingleHi == 100
RebalanceLo == 10
RebalanceHi == 60
MinDataPoints == 365

\* self.strategies, in dict (insertion) order
strategies == <<"BTC_only", "ETH_only", "rebalance_50_50", "rebalance_60_40">>

\* ------------------------------------------------------------ dict helpers
HasKey(d, k) == \E p \in d : p[1] = k

Get(d, k, default) == IF HasKey(d, k) THEN (CHOOSE p \in d : p[1] = k)[2] ELSE default

\* --------------------------------------------------------------- rationals
Abs(n) == IF n < 0 THEN -n ELSE n

RECURSIVE GCD(_, _)
GCD(a, b) == IF b = 0 THEN a ELSE GCD(b, a % b)

LCM(a, b) == (a \div GCD(a, b)) * b

Norm(n, d) == LET g == GCD(Abs(n), d) IN <<n \div g, d \div g>>

NaN == <<0, 0>>
IsNaN(x) == x[2] = 0
RInt(k) == <<k, 1>>
RNeg(a) == <<-a[1], a[2]>>

RAdd(a, b) ==
    IF IsNaN(a) \/ IsNaN(b) THEN NaN
    ELSE LET l == LCM(a[2], b[2])
         IN  Norm(a[1] * (l \div a[2]) + b[1] * (l \div b[2]), l)

RSub(a, b) == RAdd(a, RNeg(b))

RMul(a, b) ==
    IF IsNaN(a) \/ IsNaN(b) THEN NaN
    ELSE LET g1 == GCD(Abs(a[1]), b[2])
             g2 == GCD(Abs(b[1]), a[2])
         IN  Norm((a[1] \div g1) * (b[1] \div g2), (a[2] \div g2) * (b[2] \div g1))

\* a / b; every divisor the model reaches is non-zero
RDiv(a, b) ==
    IF IsNaN(a) \/ IsNaN(b) \/ b[1] = 0 THEN NaN
    ELSE RMul(a, IF b[1] > 0 THEN <<b[2], b[1]>> ELSE <<-b[2], -b[1]>>)

\* comparisons: every comparison with NaN is false
RLt(a, b) ==
    /\ ~IsNaN(a)
    /\ ~IsNaN(b)
    /\ LET l == LCM(a[2], b[2]) IN a[1] * (l \div a[2]) < b[1] * (l \div b[2])

RGt(a, b) == RLt(b, a)
RLe(a, b) == ~IsNaN(a) /\ ~IsNaN(b) /\ ~RLt(b, a)
RGe(a, b) == RLe(b, a)
\* Python's min(a, b) and max(a, b): the first argument unless the second is
\* strictly smaller (larger)
PyMin(a, b) == IF RLt(b, a) THEN b ELSE a
PyMax(a, b) == IF RGt(b, a) THEN b ELSE a

\* ------------------------------------------------------------------ series
\* a pandas Series is a function from its index (day numbers) to rationals;
\* Series(f) is f with its values computed once, as a Series holds them
Series(f) == f @@ <<>>

SetMax(S) == CHOOSE x \in S : \A y \in S : y <= x
SLen(s) == Cardinality(DOMAIN s)

RECURSIVE SumOver(_, _)
SumOver(s, D) ==
    IF D = {} THEN RInt(0)
    ELSE LET t == SetMax(D) IN RAdd(SumOver(s, D \ {t}), s[t])

RECURSIVE ProdOver(_, _)
ProdOver(s, D) ==
    IF D = {} THEN RInt(1)
    ELSE LET t == SetMax(D) IN RMul(ProdOver(s, D \ {t}), s[t])

\* s.shift(1)
Shift(s) == Series([t \in DOMAIN s |-> IF t - 1 \in DOMAIN s THEN s[t - 1] ELSE NaN])

\* s.pct_change(): s / s.shift(1) - 1
pct_change(s) ==
    LET shifted == Shift(s)
    IN  Series([t \in DOMAIN s |-> RSub(RDiv(s[t], shifted[t]), RInt(1))])

\* s.diff()
diff(s) ==
    LET shifted == Shift(s)
    IN  Series([t \in DOMAIN s |-> RSub(s[t], shifted[t])])

fillna(s, v) == Series([t \in DOMAIN s |-> IF IsNaN(s[t]) THEN v ELSE s[t]])

\* s.fillna(method='ffill')
ffill(s) ==
    Series([t \in DOMAIN s |->
        LET prev == {u \in DOMAIN s : u <= t /\ ~IsNaN(s[u])}
        IN  IF prev = {} THEN NaN ELSE s[SetMax(prev)]])

dropna(s) == Series([t \in {u \in DOMAIN s : ~IsNaN(s[u])} |-> s[t]])

\* 1 + s
plus1(s) == Series([t \in DOMAIN s |-> RAdd(RInt(1), s[t])])

\* (1 + s).cumprod()
cumprod1p(s) ==
    LET g == plus1(s)
    IN  Series([t \in DOMAIN s |-> ProdOver(g, {u \in DOMAIN s : u <= t})])

\* s.iloc[cutoff:]
iloc_from(s, cutoff) ==
    Series([t \in {u \in DOMAIN s : Cardinality({v \in DOMAIN s : v < u}) >= cutoff} |-> s[t]])

\* s.rolling(window=W, min_periods=W).mean()
rolling_mean(s, W) ==
    Series([t \in DOMAIN s |->
        IF (t - W + 1 .. t) \subseteq DOMAIN s
        THEN RDiv(SumOver(s, t - W + 1 .. t), RInt(W))
        ELSE NaN])

\* s.std() ** 2, the sample variance (ddof = 1): NaN below two observations
variance(s) ==
    LET n == SLen(s)
        mean == RDiv(SumOver(s, DOMAIN s), RInt(n))
        sq == Series([t \in DOMAIN s |-> RMul(RSub(s[t], mean), RSub(s[t], mean))])
    IN  IF n < 2 THEN NaN ELSE RDiv(SumOver(sq, DOMAIN s), RInt(n - 1))

\* ------------------------------------------------------ metrics calculator
\* A real number the code computes with a root or a fractional power is kept
\* as the rationals it is computed from (expr); zero says that it is the
\* number 0 whatever those are.
Zero == [zero |-> TRUE, expr |-> <<>>]

\* radicand ** 0.5
Sqrt(radicand) == [zero |-> radicand = RInt(0), expr |-> <<"sqrt", radicand>>]

\* (1 + total_return) ** (1 / (n / 252)) - 1 if n > 0 else 0
Cagr(total_return, n) ==
    IF n > 0
    THEN [zero |-> total_return = RInt(0), expr |-> <<"cagr", total_return, n>>]
    ELSE Zero

\* (cagr - 0.02) / deviation if deviation > 0 else 0, deviation the root of
\* radicand
CagrRatio(name, total_return, n, radicand) ==
    IF RGt(radicand, RInt(0))
    THEN [zero |-> FALSE, expr |-> <<name, total_return, n, radicand>>]
    ELSE Zero

\* recent_weight * recent + historical_weight * historical
Blend(recent, historical) ==
    IF recent.zero /\ historical.zero THEN Zero
    ELSE [zero |-> FALSE, expr |-> <<"blend", recent, historical>>]

Negative(s) == Series([t \in {u \in DOMAIN s : RLt(s[u], RInt(0))} |-> s[t]])
Positive(s) == Series([t \in {u \in DOMAIN s : RGt(s[u], RInt(0))} |-> s[t]])

\* (downside_returns.std() * sqrt(252)) ** 2 if len(downside_returns) > 0 else 0
downside_radicand(returns) ==
    LET downside_returns == Negative(returns)
    IN  IF SLen(downside_returns) > 0
        THEN RMul(variance(downside_returns), RInt(252))
        ELSE RInt(0)

_calculate_sortino(returns) ==
    IF DOMAIN returns = {} THEN Zero
    ELSE LET r == dropna(returns)
             mean_return == RMul(RDiv(SumOver(r, DOMAIN r), RInt(SLen(r))), RInt(252))
             excess == RSub(mean_return, <<1, 50>>)
             radicand == downside_radicand(r)
         IN  IF RGt(radicand, RInt(0))
             THEN [zero |-> excess = RInt(0),
                   expr |-> <<"sortino_mean", excess, SLen(r), radicand>>]
             ELSE Zero

\* drawdowns.min() of the wealth curve of the returns r
max_drawdown_of(r) ==
    LET cumulative_returns == cumprod1p(r)
        rolling_max == Series([t \in DOMAIN r |->
            CHOOSE m \in {cumulative_returns[u] : u \in {v \in DOMAIN r : v <= t}} :
                \A u \in {v \in DOMAIN r : v <= t} : RLe(cumulative_returns[u], m)])
        drawdowns == Series([t \in DOMAIN r |->
            RDiv(RSub(cumulative_returns[t], rolling_max[t]), rolling_max[t])])
    IN  IF DOMAIN r = {} THEN NaN
        ELSE CHOOSE m \in {drawdowns[t] : t \in DOMAIN r} :
                \A t \in DOMAIN r : RLe(m, drawdowns[t])

\* period_returns is <<>> for None, <<series>> otherwise
calculate_enhanced_metrics(returns0, period_returns) ==
    IF DOMAIN returns0 = {} THEN {}
    ELSE
    LET returns == dropna(returns0)
        n == SLen(returns)
        total_return == RSub(ProdOver(plus1(returns), DOMAIN returns), RInt(1))
        cagr == Cagr(total_return, n)
        vol_radicand == RMul(variance(returns), RInt(252))
        sharpe_ratio == CagrRatio("sharpe", total_return, n, vol_radicand)
        sortino_ratio == CagrRatio("sortino", total_return, n, downside_radicand(returns))
        win_rate == IF n > 0 THEN RDiv(RInt(SLen(Positive(returns))), RInt(n)) ELSE RInt(0)
        combined_score ==
            IF period_returns # <<>>
            THEN Blend(_calculate_sortino(period_returns[1]), sortino_ratio)
            ELSE sortino_ratio
    IN  {<<"cagr", cagr>>,
         <<"volatility", Sqrt(vol_radicand)>>,
         <<"sharpe_ratio", sharpe_ratio>>,
         <<"sortino_ratio", sortino_ratio>>,
         <<"max_drawdown", max_drawdown_of(returns)>>,
         <<"win_rate", win_rate>>,
         <<"total_return", total_return>>,
         <<"combined_score", combined_score>>,
         <<"num_trades", n>>}

\* --------------------------------------------------------------- optimizer
\* the candidate range the code sweeps for a strategy
FullRange(strategy_type) ==
    IF strategy_type \in {"BTC_only", "ETH_only"}
    THEN SingleLo .. SingleHi
    ELSE RebalanceLo .. RebalanceHi

\* the swept windows in submission order: the first NumTrials of the range
test_range(strategy_type) ==
    LET lo == IF strategy_type \in {"BTC_only", "ETH_only"} THEN SingleLo ELSE RebalanceLo
    IN  [i \in 1 .. NumTrials |-> lo + i - 1]

\* combined scores a trial can report: one below the sentinel, and 0..MaxScore
Scores == {SentinelScore - 1} \cup (0 .. MaxScore)

\* what backtest_ma_strategy can hand back for window w, seen from the sweep:
\* {} (an exception was caught), a result without 'combined_score', or a
\* result with one
TrialResults(w) ==
    {{}} \cup {{<<"ma_period", w>>}}
         \cup {{<<"ma_period", w>>, <<"combined_score", s>>} : s \in Scores}

VARIABLES
    pc,              \* position of the thread running run_full_analysis / find_optimal_ma
    data_points,     \* len(self.data), 0 before the fetch
    strategy_idx,    \* position of the loop over self.strategies
    results,         \* the result mapping of run_full_analysis
    outcome,         \* window -> the value its trial computes on self.data
    status,          \* window -> "queued" | "running" | "done" (its future)
    completion,      \* the windows in the order their trials finished
    idx,             \* position of the loop over futures
    collected,       \* windows whose future the loop has been through
    timed_out,       \* windows whose future.result(timeout) raised
    best_score, best_ma, best_result,
    strategy_result, \* <<>> or <<the StrategyResult>>
    data,            \* the price frame handed to backtest_ma_strategy
    ma_period,       \* its MA window
    trial_strategy,  \* its strategy_type
    bpc,             \* "idle", or the statement the call is at, or "returned"
    locals,          \* the local variables of the call, as assigned so far
    ret,             \* the dict it returned
    attempt,         \* loop variable of the retry loop of fetch_crypto_data
    download_calls,  \* download rounds (BTC-USD then ETH-USD) started so far
    downloaded,      \* <<>> or the rows of btc, of eth and of the aligned df
    fetch_error,     \* "none" or the exception fetch_crypto_data raised
    spc,             \* position of the scheduler thread in run_analysis
    calls,           \* run_analysis calls started so far
    sched_results,   \* what run_full_analysis returned to run_analysis
    file,            \* <<>> or the content of strategy_results.json
    file_before,     \* the content of the file when save_results was called
    save_error,      \* save_results caught an exception in the current call
    update_count, error_count,
    last_update,     \* 0 for None, else the call that set it
    last_return      \* what the last run_analysis call returned

runVars == <<data_points, results>>
poolVars == <<status, completion, idx, collected>>
bestVars == <<best_score, best_ma, best_result>>
optVars == <<pc, data_points, strategy_idx, results, outcome, status, completion,
             idx, collected, timed_out, best_score, best_ma, best_result,
             strategy_result>>
btVars == <<data, ma_period, trial_strategy, bpc, locals, ret>>
fetchVars == <<attempt, download_calls, downloaded, fetch_error>>
schedVars == <<spc, calls, sched_results, file, file_before, save_error,
               update_count, error_count, last_update, last_return>>
envVars == <<fetchVars, schedVars>>
vars == <<pc, data_points, strategy_idx, results, outcome, status, completion,
          idx, collected, timed_out, best_score, best_ma, best_result,
          strategy_result, data, ma_period, trial_strategy, bpc, locals, ret,
          attempt, download_calls, downloaded, fetch_error,
          spc, calls, sched_results, file, file_before, save_error,
          update_count, error_count, last_update, last_return>>

strategy_type == strategies[strategy_idx]
Range == test_range(strategy_type)
Windows == {Range[i] : i \in 1 .. Len(Range)}

\* every assignment of a trial value to each window of the range
Outcomes(range) ==
    LET W == {range[i] : i \in 1 .. Len(range)}
    IN  {o \in [W -> UNION {TrialResults(w) : w \in W}] :
            \A w \in W : o[w] \in TrialResults(w)}

\* the test a score must pass to replace the best one so far
Better(score, best) == score > best

\* mutant of Consider: a better result is kept without its window
ConsiderKeepsMa(best, w, result) ==
    IF result # {} /\ HasKey(result, "combined_score")
       /\ Better(Get(result, "combined_score", 0), best.score)
    THEN [score |-> Get(result, "combined_score", 0), ma |-> best.ma, result |-> result]
    ELSE best

\* the body of the try block for the result of window w: the new best_*
Consider(best, w, result) ==
    IF result # {} /\ HasKey(result, "combined_score")
       /\ Better(Get(result, "combined_score", 0), best.score)
    THEN [score |-> Get(result, "combined_score", 0), ma |-> w, result |-> result]
    ELSE best

InitialBest == [score |-> SentinelScore, ma |-> DefaultMa, result |-> {}]

\* the StrategyResult built from best_*
MakeStrategyResult(st, best) ==
    [strategy_name |-> st,
     optimal_ma |-> best.ma,
     combined_score |-> best.score,
     backtest_data |-> best.result]

\* the collection loop from position i on, in submission order, when the
\* futures of the windows in T time out and every other one returns
RECURSIVE SweepFrom(_, _, _, _, _)
SweepFrom(i, best, range, o, T) ==
    IF i > Len(range) THEN best
    ELSE IF range[i] \in T
         THEN SweepFrom(i + 1, best, range, o, T)
         ELSE SweepFrom(i + 1, Consider(best, range[i], o[range[i]]), range, o, T)

Sweep(range, o, T) == SweepFrom(1, InitialBest, range, o, T)

\* no scheduler: the analyzer is used on its own
NoScheduler ==
    /\ spc = "off"
    /\ calls = 0
    /\ sched_results = <<>>
    /\ file = <<>>
    /\ file_before = <<>>
    /\ save_error = FALSE
    /\ update_count = 0
    /\ error_count = 0
    /\ last_update = 0
    /\ last_return = TRUE

\* ------------------------------------------------------- run_full_analysis
Init ==
    /\ pc = "download"
    /\ data_points = 0
    /\ strategy_idx = 1
    /\ results = <<>>
    /\ outcome = <<>>
    /\ status = <<>>
    /\ completion = <<>>
    /\ idx = 0
    /\ collected = {}
    /\ timed_out = {}
    /\ best_score = SentinelScore
    /\ best_ma = DefaultMa
    /\ best_result = {}
    /\ strategy_result = <<>>
    /\ data = [BTC |-> <<>>, ETH |-> <<>>]
    /\ ma_period = DefaultMa
    /\ trial_strategy = "BTC_only"
    /\ bpc = "idle"
    /\ locals = <<>>
    /\ ret = {}
    /\ attempt = 0
    /\ download_calls = 0
    /\ downloaded = <<>>
    /\ fetch_error = "none"
    /\ NoScheduler

\* ------------------------------------------------------- fetch_crypto_data
max_retries == 3

\* row counts a download can come back with
RowCounts == {0, MinDataPoints - 1, MinDataPoints, MinDataPoints + 1}

\* the rows of btc, of eth, and of df after the alignment and dropna
DownloadedFrames ==
    {f \in [btc : RowCounts, eth : RowCounts, rows : RowCounts] :
        f.rows <= f.btc /\ f.rows <= f.eth}

\* mutant of LastAttempt: one more retry before the error is raised
LastAttemptLate(a) == a = max_retries

\* attempt == max_retries - 1
LastAttempt(a) == a = max_retries - 1

\* mutant of Insufficient: a frame one row short is accepted
InsufficientLax(n) == n < MinDataPoints - 1

\* len(df) < 365
Insufficient(n) == n < MinDataPoints

\* fetch_crypto_data raised, to its caller: run_full_analysis logs the error
\* and returns {}
FetchFail(error) ==
    /\ fetch_error' = error
    /\ results' = <<>>
    /\ pc' = "done"
    /\ UNCHANGED <<data_points, strategy_idx, outcome, timed_out, strategy_result>>
    /\ UNCHANGED <<poolVars, bestVars>>
    /\ UNCHANGED <<btVars, schedVars>>

\* both downloads of the round return: break
DownloadOk ==
    /\ pc = "download"
    /\ download_calls' = download_calls + 1
    /\ \E f \in DownloadedFrames : downloaded' = f
    /\ pc' = "validate"
    /\ UNCHANGED <<attempt, fetch_error, runVars, strategy_idx, outcome, timed_out,
                   strategy_result, poolVars, bestVars, btVars, schedVars>>

\* a download of the round raises before the last attempt: warning, sleep(2)
\* and the next attempt
DownloadRetry ==
    /\ pc = "download"
    /\ ~LastAttempt(attempt)
    /\ download_calls' = download_calls + 1
    /\ attempt' = attempt + 1
    /\ UNCHANGED <<pc, downloaded, fetch_error, runVars, strategy_idx, outcome, timed_out,
                   strategy_result, poolVars, bestVars, btVars, schedVars>>

\* a download of the last attempt raises: the exception leaves the function
DownloadFatal ==
    /\ pc = "download"
    /\ LastAttempt(attempt)
    /\ download_calls' = download_calls + 1
    /\ FetchFail("download")
    /\ UNCHANGED <<attempt, downloaded>>

\* btc.empty or eth.empty: ValueError
ValidateEmpty ==
    /\ pc = "validate"
    /\ downloaded.btc = 0 \/ downloaded.eth = 0
    /\ FetchFail("empty")
    /\ UNCHANGED <<attempt, download_calls, downloaded>>

\* len(df) < 365: ValueError
ValidateShort ==
    /\ pc = "validate"
    /\ ~(downloaded.btc = 0 \/ downloaded.eth = 0)
    /\ Insufficient(downloaded.rows)
    /\ FetchFail("short")
    /\ UNCHANGED <<attempt, download_calls, downloaded>>

\* fetch_crypto_data returns df, its locals are gone; run_full_analysis keeps
\* it as self.data
FetchOk ==
    /\ pc = "validate"
    /\ ~(downloaded.btc = 0 \/ downloaded.eth = 0)
    /\ ~Insufficient(downloaded.rows)
    /\ data_points' = downloaded.rows
    /\ attempt' = 0
    /\ downloaded' = <<>>
    /\ pc' = "optimize"
    /\ UNCHANGED <<download_calls, fetch_error>>
    /\ UNCHANGED <<strategy_idx, results, outcome, timed_out, strategy_result>>
    /\ UNCHANGED <<poolVars, bestVars>>
    /\ UNCHANGED <<btVars, schedVars>>

NextFetch ==
    \/ DownloadOk
    \/ DownloadRetry
    \/ DownloadFatal
    \/ ValidateEmpty
    \/ ValidateShort
    \/ FetchOk

\* run_full_analysis up to its loop over the strategies
SpecFetch == Init /\ [][NextFetch]_vars

\* one whole find_optimal_ma call for the strategy at strategy_idx: the trials
\* compute o on self.data, the futures of the windows in T time out
FindOptimalMa ==
    /\ pc = "optimize"
    /\ strategy_idx <= Len(strategies)
    /\ \E o \in Outcomes(Range), T \in SUBSET Windows :
          LET best == Sweep(Range, o, T)
          IN  /\ outcome' = o
              /\ timed_out' = T
              /\ best_score' = best.score
              /\ best_ma' = best.ma
              /\ best_result' = best.result
              /\ strategy_result' = <<MakeStrategyResult(strategy_type, best)>>
    /\ pc' = "store"
    /\ UNCHANGED <<data_points, strategy_idx, results, poolVars>>
    /\ UNCHANGED <<btVars, envVars>>

\* run_full_analysis copies the StrategyResult into the mapping and moves on
\* to the next strategy
StoreResult ==
    /\ pc = "store"
    /\ results' = (strategy_type :> strategy_result[1]) @@ results
    /\ strategy_idx' = strategy_idx + 1
    /\ pc' = IF strategy_idx + 1 <= Len(strategies) THEN "optimize" ELSE "metadata"
    /\ outcome' = <<>>
    /\ timed_out' = {}
    /\ UNCHANGED <<data_points, strategy_result, poolVars, bestVars>>
    /\ UNCHANGED <<btVars, envVars>>

\* the metadata entry is added and the mapping returned
AddMetadata ==
    /\ pc = "metadata"
    /\ results' = ("metadata" :> [last_update |-> "now",
                                  data_points |-> data_points,
                                  analysis_period |-> "first row ~ last row",
                                  version |-> "2.0.0"]) @@ results
    /\ pc' = "done"
    /\ UNCHANGED <<data_points, strategy_idx, outcome, timed_out, strategy_result>>
    /\ UNCHANGED <<poolVars, bestVars>>
    /\ UNCHANGED <<btVars, envVars>>

Next ==
    \/ NextFetch
    \/ FindOptimalMa
    \/ StoreResult
    \/ AddMetadata

Spec == Init /\ [][Next]_vars

\* --------------------------------------------- find_optimal_ma, by thread
\* a call of find_optimal_ma for any strategy, on data for which the trials
\* compute any outcome
InitSweep ==
    /\ pc = "enter"
    /\ data_points = MinDataPoints
    /\ strategy_idx \in 1 .. Len(strategies)
    /\ results = <<>>
    /\ outcome \in Outcomes(Range)
    /\ status = <<>>
    /\ completion = <<>>
    /\ idx = 0
    /\ collected = {}
    /\ timed_out = {}
    /\ best_score = 0
    /\ best_ma = 0
    /\ best_result = {}
    /\ strategy_result = <<>>
    /\ data = [BTC |-> <<>>, ETH |-> <<>>]
    /\ ma_period = DefaultMa
    /\ trial_strategy = "BTC_only"
    /\ bpc = "idle"
    /\ locals = <<>>
    /\ ret = {}
    /\ attempt = 0
    /\ download_calls = 1
    /\ downloaded = <<>>
    /\ fetch_error = "none"
    /\ NoScheduler

\* best_* are initialised, the range is chosen and every window is submitted
\* to the pool
Submit ==
    /\ pc = "enter"
    /\ best_score' = InitialBest.score
    /\ best_ma' = InitialBest.ma
    /\ best_result' = InitialBest.result
    /\ status' = [w \in Windows |-> "queued"]
    /\ idx' = 1
    /\ pc' = "collect"
    /\ UNCHANGED <<strategy_idx, outcome, completion, collected, timed_out,
                   strategy_result, runVars>>
    /\ UNCHANGED <<btVars, envVars>>

Running == {w \in DOMAIN status : status[w] = "running"}
Queued == {w \in DOMAIN status : status[w] = "queued"}

\* a pool thread takes the oldest queued work item
StartTrial(w) ==
    /\ w \in Queued
    /\ \A v \in Queued : w <= v
    /\ Cardinality(Running) < max_workers
    /\ status' = [status EXCEPT ![w] = "running"]
    /\ UNCHANGED <<pc, strategy_idx, outcome, completion, idx, collected,
                   timed_out, strategy_result, runVars, bestVars>>
    /\ UNCHANGED <<btVars, envVars>>

\* backtest_ma_strategy returns in its pool thread; the future is done
FinishTrial(w) ==
    /\ w \in Running
    /\ status' = [status EXCEPT ![w] = "done"]
    /\ completion' = Append(completion, w)
    /\ UNCHANGED <<pc, strategy_idx, outcome, idx, collected, timed_out,
                   strategy_result, runVars, bestVars>>
    /\ UNCHANGED <<btVars, envVars>>

\* mutant of FutureAt: the futures are taken as they complete
FutureAtCompleted(i) == {w \in DOMAIN status : status[w] = "done" /\ w \notin collected}

\* the futures the collection loop can take at position i: the dict of
\* futures is iterated in insertion order
FutureAt(i) == {Range[i]}

\* mutant of AfterFailure: the loop asks the failed future again
AfterFailureRetry(i) == i

\* mutant of AfterFailure: the first failed future ends the loop
AfterFailureAbort(i) == Len(Range) + 1

\* the position the loop continues at after the future at position i failed
AfterFailure(i) == i + 1

\* mutant of LoopDone: the loop stops before the last future
LoopDoneEarly(i) == i >= Len(Range)

\* the loop over futures is exhausted at position i
LoopDone(i) == i > Len(Range)

\* future.result() returned: the body of the try block
CollectResult ==
    /\ pc = "collect"
    /\ ~LoopDone(idx)
    /\ \E w \in FutureAt(idx) :
          /\ status[w] = "done"
          /\ w \notin collected
          /\ collected' = collected \cup {w}
          /\ LET best == Consider([score |-> best_score, ma |-> best_ma,
                                   result |-> best_result], w, outcome[w])
             IN  /\ best_score' = best.score
                 /\ best_ma' = best.ma
                 /\ best_result' = best.result
    /\ idx' = idx + 1
    /\ UNCHANGED <<pc, strategy_idx, outcome, status, completion, timed_out,
                   strategy_result, runVars>>
    /\ UNCHANGED <<btVars, envVars>>

\* future.result(timeout=30) raised TimeoutError: logged, next future
CollectTimeout ==
    /\ pc = "collect"
    /\ ~LoopDone(idx)
    /\ \E w \in FutureAt(idx) :
          /\ status[w] # "done"
          /\ w \notin collected
          /\ collected' = collected \cup {w}
          /\ timed_out' = timed_out \cup {w}
    /\ idx' = AfterFailure(idx)
    /\ UNCHANGED <<pc, strategy_idx, outcome, status, completion,
                   strategy_result, runVars, bestVars>>
    /\ UNCHANGED <<btVars, envVars>>

\* the loop over futures ends; the with block is left next
EndCollect ==
    /\ pc = "collect"
    /\ LoopDone(idx)
    /\ pc' = "shutdown"
    /\ UNCHANGED <<strategy_idx, outcome, status, completion, idx, collected,
                   timed_out, strategy_result, runVars, bestVars>>
    /\ UNCHANGED <<btVars, envVars>>

\* leaving the with block joins the pool (shutdown(wait=True)); then the
\* StrategyResult is built from best_* and returned
BuildStrategyResult ==
    /\ pc = "shutdown"
    /\ \A w \in Windows : status[w] = "done"
    /\ strategy_result' = <<MakeStrategyResult(strategy_type,
                              [score |-> best_score, ma |-> best_ma,
                               result |-> best_result])>>
    /\ pc' = "returned"
    /\ UNCHANGED <<strategy_idx, outcome, status, completion, idx, collected,
                   timed_out, runVars, bestVars>>
    /\ UNCHANGED <<btVars, envVars>>

NextSweep ==
    \/ Submit
    \/ \E w \in DOMAIN status : StartTrial(w)
    \/ \E w \in DOMAIN status : FinishTrial(w)
    \/ CollectResult
    \/ CollectTimeout
    \/ EndCollect
    \/ BuildStrategyResult

SpecSweep == InitSweep /\ [][NextSweep]_vars

\* what a whole call leaves behind is what SweepFrom computes for the futures
\* that timed out: FindOptimalMa of Spec stands for the threads of SpecSweep
SweepSummary ==
    pc = "returned" =>
        strategy_result[1] = MakeStrategyResult(strategy_type, Sweep(Range, outcome, timed_out))

\* every window any strategy can sweep
AllWindows ==
    UNION {{test_range(strategies[i])[k] : k \in 1 .. NumTrials} : i \in 1 .. Len(strategies)}

\* the windows whose trial may never return: the first submitted of a sweep
HungWindows == {test_range(strategies[i])[1] : i \in 1 .. Len(strategies)}

\* scheduling of one find_optimal_ma call: the calling thread takes its next
\* step whenever it can (result(timeout=30) returns or raises after at most
\* 30 s, and the join at the end of the with block returns once every work
\* item is done); a free pool thread takes queued work; every trial that does
\* not hang returns. Nothing makes a hung trial return.
FairSweep ==
    /\ WF_vars(Submit)
    /\ WF_vars(CollectResult)
    /\ WF_vars(CollectTimeout)
    /\ WF_vars(EndCollect)
    /\ WF_vars(BuildStrategyResult)
    /\ \A w \in AllWindows : WF_vars(StartTrial(w))
    /\ \A w \in AllWindows \ HungWindows : WF_vars(FinishTrial(w))

SpecSweepLive == InitSweep /\ [][NextSweep]_vars /\ FairSweep

\* ---------------------------------------------------------- backtest engine
\* bounds of the price data and of the window
MaxLen == 3
MaxWindow == 2
\* closing prices; small, so that the exact arithmetic stays within TLC's
\* integers
Prices == {1, 2, 3}

RecentCap == 504

\* a column of the frame as a Series
Column(seq) == Series([t \in 1 .. Len(seq) |-> RInt(seq[t])])

\* weights of a rebalancing strategy
weights_of(strategy) ==
    IF strategy = "rebalance_50_50" THEN << <<1, 2>>, <<1, 2>> >> ELSE << <<3, 5>>, <<2, 5>> >>

\* the tradable series of the strategy
price_data_of(frame, strategy) ==
    IF strategy = "BTC_only" THEN Column(frame.BTC)
    ELSE IF strategy = "ETH_only" THEN Column(frame.ETH)
    ELSE LET weights == weights_of(strategy)
             btc_returns == pct_change(Column(frame.BTC))
             eth_returns == pct_change(Column(frame.ETH))
             portfolio_returns == Series([t \in DOMAIN btc_returns |->
                 RAdd(RMul(weights[1], btc_returns[t]), RMul(weights[2], eth_returns[t]))])
             wealth == cumprod1p(fillna(portfolio_returns, RInt(0)))
         IN  Series([t \in DOMAIN wealth |-> RMul(wealth[t], RInt(100))])

\* mutant of IsFlat: a price equal to its MA is not a sell signal
IsFlatStrict(price, avg) == RLt(price, avg)

\* the test of the buy signal and of the sell signal
IsLong(price, avg) == RGt(price, avg)
IsFlat(price, avg) == RLe(price, avg)

\* the signal series: NaN, then 1 where long, then 0 where flat, forward
\* filled, the rest 0
generate_signals(price_data, ma) ==
    LET assigned == Series([t \in DOMAIN price_data |->
            IF IsFlat(price_data[t], ma[t]) THEN RInt(0)
            ELSE IF IsLong(price_data[t], ma[t]) THEN RInt(1)
            ELSE NaN])
    IN  fillna(ffill(assigned), RInt(0))

\* mutant of Lagged: the signal of a day is applied to the return of that day
Unlagged(signals) == signals

\* the position series that multiplies the period returns
Lagged(signals) == Shift(signals)

\* mutant of Min: the larger of the two
MinSwapped(a, b) == IF a < b THEN b ELSE a

Min(a, b) == IF a < b THEN a ELSE b

\* position_changes != 0, true of NaN
NotZero(x) == IsNaN(x) \/ x[1] # 0

\* mutant of signal_strength_of: the divergence is not clamped
signal_strength_unclamped(ratio) == RAdd(RInt(50), RMul(RSub(ratio, RInt(1)), RInt(1000)))

\* mutant of band_of: a ratio of exactly 1.02 is a strong buy
band_of_inclusive(ratio) ==
    IF RGe(ratio, <<51, 50>>)
    THEN <<PyMin(RInt(95), RAdd(RInt(50), RMul(RSub(ratio, RInt(1)), RInt(1000)))), "strong buy">>
    ELSE IF RGt(ratio, RInt(1))
    THEN <<RAdd(RInt(50), RMul(RSub(ratio, RInt(1)), RInt(500))), "weak buy">>
    ELSE IF RLt(ratio, <<49, 50>>)
    THEN <<PyMin(RInt(95), RAdd(RInt(50), RMul(RSub(RInt(1), ratio), RInt(1000)))), "strong sell">>
    ELSE <<RAdd(RInt(50), RMul(RSub(RInt(1), ratio), RInt(500))), "weak sell">>

\* mutant of band_of: a price at its MA is a weak buy
band_of_buy_at_par(ratio) ==
    IF RGt(ratio, <<51, 50>>)
    THEN <<PyMin(RInt(95), RAdd(RInt(50), RMul(RSub(ratio, RInt(1)), RInt(1000)))), "strong buy">>
    ELSE IF RGe(ratio, RInt(1))
    THEN <<RAdd(RInt(50), RMul(RSub(ratio, RInt(1)), RInt(500))), "weak buy">>
    ELSE IF RLt(ratio, <<49, 50>>)
    THEN <<PyMin(RInt(95), RAdd(RInt(50), RMul(RSub(RInt(1), ratio), RInt(1000)))), "strong sell">>
    ELSE <<RAdd(RInt(50), RMul(RSub(RInt(1), ratio), RInt(500))), "weak sell">>

\* the band of the price / MA ratio: <<signal_strength, current_signal>>
band_of(ratio) ==
    IF RGt(ratio, <<51, 50>>)
    THEN <<PyMin(RInt(95), RAdd(RInt(50), RMul(RSub(ratio, RInt(1)), RInt(1000)))), "strong buy">>
    ELSE IF RGt(ratio, RInt(1))
    THEN <<RAdd(RInt(50), RMul(RSub(ratio, RInt(1)), RInt(500))), "weak buy">>
    ELSE IF RLt(ratio, <<49, 50>>)
    THEN <<PyMin(RInt(95), RAdd(RInt(50), RMul(RSub(RInt(1), ratio), RInt(1000)))), "strong sell">>
    ELSE <<RAdd(RInt(50), RMul(RSub(RInt(1), ratio), RInt(500))), "weak sell">>

\* the 'signal_strength' entry of the result
signal_strength_of(ratio) == PyMin(RInt(99), PyMax(RInt(1), band_of(ratio)[1]))

\* the dict backtest_ma_strategy returns when nothing raised
BacktestResult(l, window) ==
    LET last == SetMax(DOMAIN l.price_data)
        current_price == l.price_data[last]
        current_ma == l.ma[last]
        price_ma_ratio == IF RGt(current_ma, RInt(0)) THEN RDiv(current_price, current_ma) ELSE RInt(1)
    IN  l.all_period_metrics \cup
        {<<"ma_period", window>>,
         <<"total_trades", l.trades>>,
         <<"current_signal", band_of(price_ma_ratio)[2]>>,
         <<"signal_strength", signal_strength_of(price_ma_ratio)>>,
         <<"current_price_ma_ratio", price_ma_ratio>>,
         <<"cumulative_returns", cumprod1p(l.strategy_returns)>>,
         <<"signals", l.signals>>,
         <<"recent_performance", l.recent_metrics>>}

\* the frames of up to MaxLen aligned rows
Frames ==
    UNION {[BTC : [1 .. n -> Prices], ETH : [1 .. n -> Prices]] : n \in 0 .. MaxLen}

InitBacktest ==
    /\ pc = "idle"
    /\ data_points = 0
    /\ strategy_idx = 1
    /\ results = <<>>
    /\ outcome = <<>>
    /\ status = <<>>
    /\ completion = <<>>
    /\ idx = 0
    /\ collected = {}
    /\ timed_out = {}
    /\ best_score = SentinelScore
    /\ best_ma = DefaultMa
    /\ best_result = {}
    /\ strategy_result = <<>>
    /\ data \in Frames
    /\ ma_period \in 1 .. MaxWindow
    /\ trial_strategy \in {strategies[i] : i \in 1 .. Len(strategies)}
    /\ bpc = "call"
    /\ locals = <<>>
    /\ ret = {}
    /\ attempt = 0
    /\ download_calls = 0
    /\ downloaded = <<>>
    /\ fetch_error = "none"
    /\ NoScheduler

\* mutant of DerivePriceData: the first row, which has no return, is dropped
\* from the frame itself
DerivePriceDataInPlace ==
    /\ bpc = "call"
    /\ locals' = [price_data |-> price_data_of(data, trial_strategy)]
    /\ data' = IF data.BTC = <<>> THEN data
               ELSE [BTC |-> Tail(data.BTC), ETH |-> Tail(data.ETH)]
    /\ bpc' = "ma"
    /\ UNCHANGED <<ma_period, trial_strategy, ret, optVars, envVars>>

\* price_data = ... : the series the strategy trades
DerivePriceData ==
    /\ bpc = "call"
    /\ locals' = [price_data |-> price_data_of(data, trial_strategy)]
    /\ bpc' = "ma"
    /\ UNCHANGED <<data, ma_period, trial_strategy, ret, optVars, envVars>>

\* ma = price_data.rolling(window=ma_period, min_periods=ma_period).mean()
MovingAverage ==
    /\ bpc = "ma"
    /\ locals' = locals @@ [ma |-> rolling_mean(locals.price_data, ma_period)]
    /\ bpc' = "signals"
    /\ UNCHANGED <<data, ma_period, trial_strategy, ret, optVars, envVars>>

GenerateSignals ==
    /\ bpc = "signals"
    /\ locals' = locals @@ [signals |-> generate_signals(locals.price_data, locals.ma)]
    /\ bpc' = "returns"
    /\ UNCHANGED <<data, ma_period, trial_strategy, ret, optVars, envVars>>

\* strategy_returns = (signals.shift(1) * price_returns).dropna()
StrategyReturns ==
    /\ bpc = "returns"
    /\ LET price_returns == pct_change(locals.price_data)
           position == Lagged(locals.signals)
           product == Series([t \in DOMAIN price_returns |->
                                 RMul(position[t], price_returns[t])])
       IN  locals' = locals @@ [price_returns |-> price_returns,
                                strategy_returns |-> dropna(product)]
    /\ bpc' = "metrics"
    /\ UNCHANGED <<data, ma_period, trial_strategy, ret, optVars, envVars>>

\* all_period_metrics = self.calculate_enhanced_metrics(strategy_returns)
AllPeriodMetrics ==
    /\ bpc = "metrics"
    /\ locals' = locals @@
           [all_period_metrics |-> calculate_enhanced_metrics(locals.strategy_returns, <<>>)]
    /\ bpc' = "recent"
    /\ UNCHANGED <<data, ma_period, trial_strategy, ret, optVars, envVars>>

\* recent_returns = strategy_returns.iloc[recent_cutoff:], the last
\* min(504, half) strategy returns
RecentWindow ==
    /\ bpc = "recent"
    /\ LET n == SLen(locals.strategy_returns)
           recent_cutoff == n - Min(RecentCap, n \div 2)
       IN  locals' = locals @@
               [recent_cutoff |-> recent_cutoff,
                recent_returns |-> iloc_from(locals.strategy_returns, recent_cutoff)]
    /\ bpc' = "recent_metrics"
    /\ UNCHANGED <<data, ma_period, trial_strategy, ret, optVars, envVars>>

\* recent_metrics = self.calculate_enhanced_metrics(recent_returns)
RecentMetrics ==
    /\ bpc = "recent_metrics"
    /\ locals' = locals @@
           [recent_metrics |-> calculate_enhanced_metrics(locals.recent_returns, <<>>)]
    /\ bpc' = "blend"
    /\ UNCHANGED <<data, ma_period, trial_strategy, ret, optVars, envVars>>

\* if len(recent_returns) > 0: the combined score becomes the blend of the
\* recent and of the all-period Sortino ratio
BlendScore ==
    /\ bpc = "blend"
    /\ locals' =
           IF SLen(locals.recent_returns) > 0
           THEN [locals EXCEPT !.all_period_metrics =
                    {p \in @ : p[1] # "combined_score"} \cup
                    {<<"combined_score",
                       Blend(Get(locals.recent_metrics, "sortino_ratio", Zero),
                             Get(@, "sortino_ratio", Zero))>>}]
           ELSE locals
    /\ bpc' = "trades"
    /\ UNCHANGED <<data, ma_period, trial_strategy, ret, optVars, envVars>>

\* trades = len(position_changes[position_changes != 0])
CountTrades ==
    /\ bpc = "trades"
    /\ LET position_changes == diff(locals.signals)
       IN  locals' = locals @@
               [position_changes |-> position_changes,
                trades |-> Cardinality({t \in DOMAIN position_changes :
                                           NotZero(position_changes[t])})]
    /\ bpc' = "current"
    /\ UNCHANGED <<data, ma_period, trial_strategy, ret, optVars, envVars>>

\* the current-signal analysis and the return statement
BacktestReturns ==
    /\ bpc = "current"
    /\ DOMAIN locals.price_data # {}
    /\ ret' = BacktestResult(locals, ma_period)
    /\ bpc' = "returned"
    /\ UNCHANGED <<data, ma_period, trial_strategy, locals, optVars, envVars>>

\* price_data.iloc[-1] raises IndexError on an empty frame: the except
\* clause logs and returns {}
BacktestRaises ==
    /\ bpc = "current"
    /\ DOMAIN locals.price_data = {}
    /\ ret' = {}
    /\ bpc' = "returned"
    /\ UNCHANGED <<data, ma_period, trial_strategy, locals, optVars, envVars>>

NextBacktest ==
    \/ DerivePriceData
    \/ MovingAverage
    \/ GenerateSignals
    \/ StrategyReturns
    \/ AllPeriodMetrics
    \/ RecentWindow
    \/ RecentMetrics
    \/ BlendScore
    \/ CountTrades
    \/ BacktestReturns
    \/ BacktestRaises

SpecBacktest == InitBacktest /\ [][NextBacktest]_vars

\* ------------------------------------------- backtest engine, short frames
\* backtest_ma_strategy on frames of two rows whose prices lie around 100, so
\* that the price / MA ratio meets the band edges 0.98, 1 and 1.02, under a
\* window the frame fills (2) and under one it does not (3)
BandSpread == 5
BandPrices == (100 - BandSpread) .. (100 + BandSpread)
ShortWindows == {2, 3}

ShortFrames ==
    {[BTC |-> <<>>, ETH |-> <<>>]} \cup {[BTC |-> s, ETH |-> s] : s \in [1 .. 2 -> BandPrices]}

InitShortFrame ==
    /\ pc = "idle"
    /\ data_points = 0
    /\ strategy_idx = 1
    /\ results = <<>>
    /\ outcome = <<>>
    /\ status = <<>>
    /\ completion = <<>>
    /\ idx = 0
    /\ collected = {}
    /\ timed_out = {}
    /\ best_score = SentinelScore
    /\ best_ma = DefaultMa
    /\ best_result = {}
    /\ strategy_result = <<>>
    /\ data \in ShortFrames
    /\ ma_period \in ShortWindows
    /\ trial_strategy \in {strategies[i] : i \in 1 .. Len(strategies)}
    /\ bpc = "call"
    /\ locals = <<>>
    /\ ret = {}
    /\ attempt = 0
    /\ download_calls = 0
    /\ downloaded = <<>>
    /\ fetch_error = "none"
    /\ NoScheduler

SpecShortFrame == InitShortFrame /\ [][NextBacktest]_vars

\* ------------------------------------------- backtest engine, rally frames
\* backtest_ma_strategy on frames of RallyLen rows under a window of 3, with
\* prices that can jump and then fall slowly, so that the strategy stays long
\* through falling days and the recent half of its returns holds several
\* different losses
RallyLen == 5
RallyPrices == {1, 6, 8}
RallyWindows == {3}

RallyFrames ==
    {[BTC |-> <<>>, ETH |-> <<>>]} \cup
    {[BTC |-> s, ETH |-> s] : s \in [1 .. RallyLen -> RallyPrices]}

InitRally ==
    /\ pc = "idle"
    /\ data_points = 0
    /\ strategy_idx = 1
    /\ results = <<>>
    /\ outcome = <<>>
    /\ status = <<>>
    /\ completion = <<>>
    /\ idx = 0
    /\ collected = {}
    /\ timed_out = {}
    /\ best_score = SentinelScore
    /\ best_ma = DefaultMa
    /\ best_result = {}
    /\ strategy_result = <<>>
    /\ data \in RallyFrames
    /\ ma_period \in RallyWindows
    /\ trial_strategy \in {strategies[i] : i \in 1 .. Len(strategies)}
    /\ bpc = "call"
    /\ locals = <<>>
    /\ ret = {}
    /\ attempt = 0
    /\ download_calls = 0
    /\ downloaded = <<>>
    /\ fetch_error = "none"
    /\ NoScheduler

SpecRally == InitRally /\ [][NextBacktest]_vars

\* ------------------------------------------- backtest engine, recent window
\* The slicing step of lines 203-204 on return series of up to MaxRecentLen
\* days and of the lengths around twice the cap of 504 days. The state is the
\* one at line 203 of a call on constant prices: every strategy return is 0
\* and the series is indexed by the days 2 .. N + 1; of the locals, only the
\* one the step reads is kept.
MaxRecentLen == 100
RecentLens == (0 .. MaxRecentLen) \cup ((2 * RecentCap - 1) .. (2 * RecentCap + 2))

InitRecent ==
    /\ pc = "idle"
    /\ data_points = 0
    /\ strategy_idx = 1
    /\ results = <<>>
    /\ outcome = <<>>
    /\ status = <<>>
    /\ completion = <<>>
    /\ idx = 0
    /\ collected = {}
    /\ timed_out = {}
    /\ best_score = SentinelScore
    /\ best_ma = DefaultMa
    /\ best_result = {}
    /\ strategy_result = <<>>
    /\ data = [BTC |-> <<>>, ETH |-> <<>>]
    /\ ma_period = DefaultMa
    /\ trial_strategy = "BTC_only"
    /\ bpc = "recent"
    /\ \E N \in RecentLens :
          locals = [strategy_returns |-> Series([t \in 2 .. N + 1 |-> RInt(0)])]
    /\ ret = {}
    /\ attempt = 0
    /\ download_calls = 0
    /\ downloaded = <<>>
    /\ fetch_error = "none"
    /\ NoScheduler

SpecRecent == InitRecent /\ [][RecentWindow]_vars

\* ---------------------------------------------------------------- scheduler
\* CryptoAnalysisScheduler (src/scheduler.py): run_scheduler calls
\* run_analysis once and then on every scheduled day; run_analysis calls
\* run_full_analysis, which returns {} or a mapping with its metadata, and
\* save_results, which writes the mapping to strategy_results.json chunk by
\* chunk as json.dump encodes it.
MaxCalls == 6
NumChunks == 2
max_errors == 5

\* the file holding the first c chunks of the mapping of call g
Content(g, c) == [gen |-> g, chunks |-> c]
Complete(f) == f # <<>> /\ f.chunks = NumChunks

InitScheduler ==
    /\ pc = "idle"
    /\ data_points = 0
    /\ strategy_idx = 1
    /\ results = <<>>
    /\ outcome = <<>>
    /\ status = <<>>
    /\ completion = <<>>
    /\ idx = 0
    /\ collected = {}
    /\ timed_out = {}
    /\ best_score = SentinelScore
    /\ best_ma = DefaultMa
    /\ best_result = {}
    /\ strategy_result = <<>>
    /\ data = [BTC |-> <<>>, ETH |-> <<>>]
    /\ ma_period = DefaultMa
    /\ trial_strategy = "BTC_only"
    /\ bpc = "idle"
    /\ locals = <<>>
    /\ ret = {}
    /\ attempt = 0
    /\ download_calls = 0
    /\ downloaded = <<>>
    /\ fetch_error = "none"
    /\ spc = "idle"
    /\ calls = 0
    /\ sched_results = <<>>
    /\ file \in {<<>>, Content(0, NumChunks)}
    /\ file_before = <<>>
    /\ save_error = FALSE
    /\ update_count = 0
    /\ error_count = 0
    /\ last_update = 0
    /\ last_return = TRUE

\* run_scheduler calls run_analysis: at once, and then from run_pending
\* unless the first call returned False
StartAnalysis ==
    /\ spc = "idle"
    /\ calls < MaxCalls
    /\ ~(calls = 1 /\ ~last_return)
    /\ calls' = calls + 1
    /\ save_error' = FALSE
    /\ spc' = "analysis"
    /\ UNCHANGED <<sched_results, file, file_before, update_count, error_count,
                   last_update, last_return>>
    /\ UNCHANGED <<optVars, btVars, fetchVars>>

\* run_full_analysis returned a mapping
AnalysisReturns ==
    /\ spc = "analysis"
    /\ sched_results' = <<calls>>
    /\ spc' = "save"
    /\ UNCHANGED <<calls, file, file_before, save_error, update_count, error_count,
                   last_update, last_return>>
    /\ UNCHANGED <<optVars, btVars, fetchVars>>

\* run_full_analysis returned {}: run_analysis raises
AnalysisEmpty ==
    /\ spc = "analysis"
    /\ sched_results' = <<>>
    /\ spc' = "except"
    /\ UNCHANGED <<calls, file, file_before, save_error, update_count, error_count,
                   last_update, last_return>>
    /\ UNCHANGED <<optVars, btVars, fetchVars>>

\* save_results: open(filename, 'w') truncates the file
SaveOpen ==
    /\ spc = "save"
    /\ file_before' = file
    /\ file' = Content(calls, 0)
    /\ spc' = "write"
    /\ UNCHANGED <<calls, sched_results, save_error, update_count, error_count,
                   last_update, last_return>>
    /\ UNCHANGED <<optVars, btVars, fetchVars>>

\* save_results: open raises; the except clause logs and the call returns
SaveOpenFails ==
    /\ spc = "save"
    /\ file_before' = file
    /\ save_error' = TRUE
    /\ spc' = "stats"
    /\ UNCHANGED <<calls, sched_results, file, update_count, error_count,
                   last_update, last_return>>
    /\ UNCHANGED <<optVars, btVars, fetchVars>>

\* json.dump writes the next chunk
SaveWrite ==
    /\ spc = "write"
    /\ file.chunks < NumChunks
    /\ file' = Content(file.gen, file.chunks + 1)
    /\ UNCHANGED <<spc, calls, sched_results, file_before, save_error, update_count,
                   error_count, last_update, last_return>>
    /\ UNCHANGED <<optVars, btVars, fetchVars>>

\* json.dump raises (encoding or I/O error): the with block closes the file,
\* the except clause logs and the call returns
SaveWriteFails ==
    /\ spc = "write"
    /\ file.chunks < NumChunks
    /\ save_error' = TRUE
    /\ spc' = "stats"
    /\ UNCHANGED <<calls, sched_results, file, file_before, update_count, error_count,
                   last_update, last_return>>
    /\ UNCHANGED <<optVars, btVars, fetchVars>>

\* every chunk is written: the file is closed and the call returns
SaveDone ==
    /\ spc = "write"
    /\ file.chunks = NumChunks
    /\ spc' = "stats"
    /\ UNCHANGED <<calls, sched_results, file, file_before, save_error, update_count,
                   error_count, last_update, last_return>>
    /\ UNCHANGED <<optVars, btVars, fetchVars>>

\* self.error_count >= self.max_errors
Failed(n) == n >= max_errors

\* mutant of UpdateStatistics: a success does not reset error_count
UpdateStatisticsNoReset ==
    /\ spc = "stats"
    /\ last_update' = calls
    /\ update_count' = update_count + 1
    /\ last_return' = TRUE
    /\ spc' = "idle"
    /\ UNCHANGED <<calls, sched_results, file, file_before, save_error, error_count>>
    /\ UNCHANGED <<optVars, btVars, fetchVars>>

\* the statistics after save_results returned, the notification, return True
UpdateStatistics ==
    /\ spc = "stats"
    /\ last_update' = calls
    /\ update_count' = update_count + 1
    /\ error_count' = 0
    /\ last_return' = TRUE
    /\ spc' = "idle"
    /\ UNCHANGED <<calls, sched_results, file, file_before, save_error>>
    /\ UNCHANGED <<optVars, btVars, fetchVars>>

\* the except clause of run_analysis
HandleError ==
    /\ spc = "except"
    /\ error_count' = error_count + 1
    /\ last_return' = ~Failed(error_count + 1)
    /\ spc' = "idle"
    /\ UNCHANGED <<calls, sched_results, file, file_before, save_error, update_count,
                   last_update>>
    /\ UNCHANGED <<optVars, btVars, fetchVars>>

NextScheduler ==
    \/ StartAnalysis
    \/ AnalysisReturns
    \/ AnalysisEmpty
    \/ SaveOpen
    \/ SaveOpenFails
    \/ SaveWrite
    \/ SaveWriteFails
    \/ SaveDone
    \/ UpdateStatistics
    \/ HandleError

SpecScheduler == InitScheduler /\ [][NextScheduler]_vars

\* ------------------------------------------------- claims on the optimizer
\* the trials that produced a result with a combined score
Successful == {w \in Windows : w \notin timed_out /\ HasKey(outcome[w], "combined_score")}

ScoreOf(w) == Get(outcome[w], "combined_score", 0)

\* the successful window of highest score, the lowest one on a tie
ArgMaxWindow ==
    CHOOSE w \in Successful :
        \A v \in Successful : ScoreOf(w) > ScoreOf(v) \/ (ScoreOf(w) = ScoreOf(v) /\ w <= v)

\* C1: find_optimal_ma returns the arg-max over all successful trial scores,
\* the lowest window on a tie, for every assignment of scores to windows.
C1_ReturnsArgMax ==
    (pc = "returned" /\ Successful # {}) =>
        /\ strategy_result[1].optimal_ma = ArgMaxWindow
        /\ strategy_result[1].combined_score = ScoreOf(ArgMaxWindow)

\* C2: with no trial timing out, the StrategyResult is the same function of
\* the strategy and the trial values for every interleaving and completion
\* order of the pool threads.
C2_Deterministic ==
    (pc = "returned" /\ timed_out = {}) =>
        strategy_result[1] = MakeStrategyResult(strategy_type, Sweep(Range, outcome, {}))

\* a call returned without timeout, its trials finished against the
\* submission order, and two windows tie on the best score
C2_Witness ==
    /\ pc = "returned"
    /\ timed_out = {}
    /\ \E i, j \in 1 .. Len(completion) : i < j /\ completion[i] > completion[j]
    /\ \E w, v \in Successful :
          w # v /\ ScoreOf(w) = ScoreOf(v) /\ ScoreOf(w) = strategy_result[1].combined_score

\* every window of the range failed: timed out, raised, or gave no score
AllTrialsFailed == \A w \in Windows : w \in timed_out \/ ~HasKey(outcome[w], "combined_score")

\* C3: when every candidate window of a strategy fails, run_full_analysis
\* omits that strategy's key from the result mapping.
C3_AllFailedStrategyOmitted ==
    [][(pc = "store" /\ AllTrialsFailed) => strategies[strategy_idx] \notin DOMAIN results']_vars

\* C4: a trial that raises or times out is skipped without aborting the
\* sweep: when the call returns the loop has been through every future, and
\* every window that returned a score was weighed against the best.
C4_FailedTrialSkipped ==
    pc = "returned" =>
        /\ collected = Windows
        /\ \A w \in Successful : strategy_result[1].combined_score >= ScoreOf(w)

\* a call returned in which a trial failed (timed out or raised) and a later
\* window of the range was selected
C4_Witness ==
    /\ pc = "returned"
    /\ \E w \in Windows, v \in Successful :
          /\ w \in timed_out \/ outcome[w] = {}
          /\ w < v
          /\ strategy_result[1].optimal_ma = v

\* C5: once the reduction is over (the loop has ended, the StrategyResult is
\* being or has been built) every dispatched trial has finished or timed out.
C5_ReductionAfterAllTrials ==
    pc \in {"shutdown", "returned"} =>
        \A w \in Windows : status[w] = "done" \/ w \in timed_out

\* a StrategyResult was built after some, but not all, trials timed out
C5_Witness ==
    /\ pc = "returned"
    /\ timed_out # {}
    /\ timed_out # Windows

\* ---------------------------------------------- claims on the backtest engine
\* C6: the strategy return realized on day T+1 is the signal of day T times
\* the price return of day T+1, for every day T.
C6_NoLookAhead ==
    bpc = "returned" =>
        \A T \in DOMAIN locals.signals :
            T + 1 \in DOMAIN locals.price_data =>
                /\ T + 1 \in DOMAIN locals.strategy_returns
                /\ locals.strategy_returns[T + 1]
                       = RMul(locals.signals[T], locals.price_returns[T + 1])

\* a long position decided on day T earns the non-zero return of day T+1,
\* on which the signal itself turns flat
C6_Witness ==
    /\ bpc = "returned"
    /\ \E T \in DOMAIN locals.signals :
          /\ T + 1 \in DOMAIN locals.signals
          /\ locals.signals[T] = RInt(1)
          /\ locals.signals[T + 1] = RInt(0)
          /\ locals.strategy_returns[T + 1] # RInt(0)
          /\ locals.strategy_returns[T + 1] = locals.price_returns[T + 1]

\* C7: the signal is flat before ma_period observations exist; from then on
\* it is long exactly when the price is above the mean of the last ma_period
\* prices, and flat when it is at or below it.
C7_SignalDefinition ==
    bpc = "returned" =>
        \A t \in DOMAIN locals.price_data :
            IF t < ma_period
            THEN locals.signals[t] = RInt(0)
            ELSE locals.signals[t] =
                    IF RGt(RMul(locals.price_data[t], RInt(ma_period)),
                           SumOver(locals.price_data, t - ma_period + 1 .. t))
                    THEN RInt(1) ELSE RInt(0)

\* a price equal to its moving average on the day after a long signal
C7_Witness ==
    /\ bpc = "returned"
    /\ \E t \in DOMAIN locals.price_data :
          /\ t - 1 >= ma_period
          /\ locals.signals[t - 1] = RInt(1)
          /\ locals.price_data[t] = locals.ma[t]
          /\ locals.signals[t] = RInt(0)

\* the day-over-day changes of the signal series that are not zero
SignalChanges ==
    {t \in DOMAIN locals.signals :
        t - 1 \in DOMAIN locals.signals /\ locals.signals[t] # locals.signals[t - 1]}

\* C8: total_trades is the number of non-zero day-over-day changes of the
\* signal series.
C8_TradesCountTransitions ==
    (bpc = "returned" /\ ret # {}) =>
        Get(ret, "total_trades", 0) = Cardinality(SignalChanges)

\* a constant tradable series, long enough for its returns to have a sample
\* deviation
ConstantPrices ==
    /\ SLen(locals.price_data) >= 3
    /\ \A t, u \in DOMAIN locals.price_data : locals.price_data[t] = locals.price_data[u]

\* C9: on a constant price series the result has zero trades, zero
\* volatility and a combined score that is present and 0.
C9_ConstantSeries ==
    (bpc = "returned" /\ ConstantPrices) =>
        /\ HasKey(ret, "total_trades") /\ Get(ret, "total_trades", 0) = 0
        /\ HasKey(ret, "volatility") /\ Get(ret, "volatility", Zero).zero
        /\ HasKey(ret, "combined_score") /\ Get(ret, "combined_score", Zero) = Zero

\* C10: the signal_strength of every result lies in [1, 99].
C10_SignalStrengthRange ==
    (bpc = "returned" /\ ret # {}) =>
        /\ RLe(RInt(1), Get(ret, "signal_strength", NaN))
        /\ RLe(Get(ret, "signal_strength", NaN), RInt(99))

\* a result whose latest price equals its defined latest MA: ratio 1.0
C10_Witness ==
    /\ bpc = "returned"
    /\ ret # {}
    /\ ~IsNaN(locals.ma[SetMax(DOMAIN locals.ma)])
    /\ Get(ret, "current_price_ma_ratio", NaN) = RInt(1)
    /\ Get(ret, "signal_strength", NaN) = RInt(50)

\* -------------------------------------- claims on the signal classification
\* the ratio latest price / latest MA of the call, 1 where the MA is
\* undefined or not positive
LatestRatio ==
    LET last == SetMax(DOMAIN locals.price_data)
    IN  IF RGt(locals.ma[last], RInt(0))
        THEN RDiv(locals.price_data[last], locals.ma[last])
        ELSE RInt(1)

\* C11: the current signal is strong buy exactly for a ratio above 1.02, weak
\* buy exactly for a ratio in (1, 1.02], strong sell exactly for a ratio
\* below 0.98 and weak sell exactly for a ratio in [0.98, 1]; every result
\* carries one of the four.
C11_SignalBands ==
    (bpc = "returned" /\ ret # {}) =>
        LET current_signal == Get(ret, "current_signal", "N/A")
        IN  /\ current_signal \in {"strong buy", "weak buy", "strong sell", "weak sell"}
            /\ current_signal = "strong buy" <=> RGt(LatestRatio, <<51, 50>>)
            /\ current_signal = "weak buy" <=>
                   (RGt(LatestRatio, RInt(1)) /\ RLe(LatestRatio, <<51, 50>>))
            /\ current_signal = "strong sell" <=> RLt(LatestRatio, <<49, 50>>)
            /\ current_signal = "weak sell" <=>
                   (RGe(LatestRatio, <<49, 50>>) /\ RLe(LatestRatio, RInt(1)))

\* a result whose ratio is exactly 1.02 (prices 98 then 102 under window 2),
\* classified weak buy
C11_Witness ==
    /\ bpc = "returned"
    /\ ret # {}
    /\ LatestRatio = <<51, 50>>
    /\ Get(ret, "current_signal", "N/A") = "weak buy"

\* ---------------------------------------- claims on the metrics calculator
\* C12: on a return series with no element calculate_enhanced_metrics
\* returns a bundle in which every metric is present with the value zero.
C12_EmptySeriesNeutralBundle ==
    (bpc = "recent" /\ DOMAIN locals.strategy_returns = {}) =>
        LET bundle == locals.all_period_metrics
        IN  /\ \A k \in {"total_return", "cagr", "volatility", "sharpe_ratio",
                         "sortino_ratio", "max_drawdown", "win_rate", "num_trades",
                         "combined_score"} : HasKey(bundle, k)
            /\ Get(bundle, "total_return", NaN) = RInt(0)
            /\ Get(bundle, "cagr", <<>>) = Zero
            /\ Get(bundle, "volatility", <<>>) = Zero
            /\ Get(bundle, "sharpe_ratio", <<>>) = Zero
            /\ Get(bundle, "sortino_ratio", <<>>) = Zero
            /\ Get(bundle, "max_drawdown", NaN) = RInt(0)
            /\ Get(bundle, "win_rate", NaN) = RInt(0)
            /\ Get(bundle, "num_trades", -1) = 0
            /\ Get(bundle, "combined_score", <<>>) = Zero

\* C13: of N strategy returns the recent window starts at position
\* max(0, N - min(504, N div 2)), holds exactly min(504, N div 2) of them, at
\* most half of the series, and is the tail of the series.
C13_RecentWindow ==
    bpc = "recent_metrics" =>
        LET full == locals.strategy_returns
            recent == locals.recent_returns
            N == SLen(full)
            size == IF N \div 2 < 504 THEN N \div 2 ELSE 504
        IN  /\ locals.recent_cutoff = (IF N - size > 0 THEN N - size ELSE 0)
            /\ SLen(recent) = size
            /\ 2 * SLen(recent) <= N
            /\ DOMAIN recent \subseteq DOMAIN full
            /\ \A u \in DOMAIN recent :
                  /\ recent[u] = full[u]
                  /\ \A v \in DOMAIN full : v > u => v \in DOMAIN recent

\* a series of 1010 returns, half of which exceeds the cap: the window is the
\* last 504
C13_Witness ==
    /\ bpc = "recent_metrics"
    /\ SLen(locals.strategy_returns) = 1010
    /\ SLen(locals.recent_returns) = 504
    /\ locals.recent_cutoff = 506

\* C14: a trial whose price series is shorter than its MA window returns no
\* 'combined_score'.
C14_ShortSeriesScoreAbsent ==
    (bpc = "returned" /\ SLen(locals.price_data) < ma_period) =>
        ~HasKey(ret, "combined_score")

\* ------------------------------------------------------ claims on the fetch
\* C15: at most 3 download rounds are made; a round is made only while every
\* earlier one failed, and none after the first that succeeds; after the
\* third failure the error is fatal and run_full_analysis returns a mapping
\* with no strategy and no metadata.
C15_RetryUpToThreeAttempts ==
    /\ [](/\ download_calls <= 3
          /\ pc = "download" => download_calls = attempt
          /\ pc = "validate" => download_calls = attempt + 1
          /\ fetch_error = "download" =>
                (download_calls = 3 /\ pc = "done" /\ DOMAIN results = {}))
    /\ [][pc # "download" => download_calls' = download_calls]_vars

\* the third round failed like the two before it
C15_Witness ==
    /\ fetch_error = "download"
    /\ download_calls = 3
    /\ attempt = 2
    /\ pc = "done"

\* C16: a download with an empty asset or with fewer than 365 aligned rows
\* makes fetch_crypto_data raise; no download round follows, no strategy is
\* optimized and run_full_analysis returns the empty mapping.
C16_InsufficientDataFatal ==
    /\ [](/\ fetch_error \in {"empty", "short"} =>
                /\ pc = "done"
                /\ DOMAIN results = {}
                /\ strategy_result = <<>>
                /\ strategy_idx = 1
          /\ pc = "optimize" => data_points >= 365)
    /\ [][(/\ pc = "validate"
           /\ (downloaded.btc = 0 \/ downloaded.eth = 0 \/ downloaded.rows < 365)) =>
              (/\ fetch_error' \in {"empty", "short"}
               /\ download_calls' = download_calls
               /\ pc' = "done")]_vars

\* the first round brought 364 aligned rows: ValueError, no second round
C16_Witness ==
    /\ fetch_error = "short"
    /\ downloaded.rows = 364
    /\ download_calls = 1
    /\ pc = "done"

\* -------------------------------------------------- claims on the aggregator
\* C17: the mapping run_full_analysis returns after the strategy loop holds
\* the metadata entry and exactly the strategies whose optimization produced
\* a result, and the metadata has an entry for their number, that is one
\* beside the four taken from the clock and from the data.
C17_PartialResultAndCount ==
    (pc = "done" /\ fetch_error = "none") =>
        /\ "metadata" \in DOMAIN results
        /\ \A st \in DOMAIN results \ {"metadata"} : results[st].backtest_data # {}
        /\ DOMAIN results["metadata"] \ {"last_update", "data_points",
                                         "analysis_period", "version"} # {}

\* ------------------------------------------------- claims on the persistence
\* C18: when save_results has failed, a file that held a complete mapping
\* when save_results was called still holds that mapping.
C18_FailedWriteKeepsPriorFile ==
    (spc = "stats" /\ save_error /\ Complete(file_before)) => file = file_before

\* C19: a run whose save_results failed is not counted as a persisted
\* update: run_analysis leaves update_count and last_update as they are.
C19_SaveFailureSurfaced ==
    [][(spc = "stats" /\ save_error) =>
          (update_count' = update_count /\ last_update' = last_update)]_vars

\* ------------------------------------------------- claims on trial timeouts
\* C20: a trial whose future timed out is left behind by the collection loop
\* and never asked again, its work item is never run a second time, and its
\* result is never the selected one, also when the trial finishes while the
\* loop is still collecting.
C20_TimedOutTrialDiscarded ==
    /\ [](\A w \in timed_out :
             /\ \E i \in 1 .. idx - 1 : Range[i] = w
             /\ Get(best_result, "ma_period", 0) # w
             /\ strategy_result # <<>> =>
                    Get(strategy_result[1].backtest_data, "ma_period", 0) # w)
    /\ [][\A w \in timed_out :
             /\ w \in timed_out'
             /\ status[w] = "done" => status'[w] = "done"
             /\ status[w] = "running" => status'[w] # "queued"]_vars

\* the loop is still collecting; a trial that timed out has finished since,
\* with a score above the best so far
C20_Witness ==
    /\ pc = "collect"
    /\ ~LoopDone(idx)
    /\ \E w \in timed_out :
          /\ status[w] = "done"
          /\ HasKey(outcome[w], "combined_score")
          /\ Get(outcome[w], "combined_score", 0) > best_score

\* ------------------------------------------- claims on the sweep, liveness
\* C21: a trial that never finishes does not keep find_optimal_ma from
\* returning: once the loop over the futures is through (every other trial
\* has completed or timed out and the hung trial's timeout has elapsed), the
\* call eventually returns its StrategyResult
C21_HungTrialDoesNotBlock ==
    (pc = "shutdown") ~> (pc = "returned" /\ strategy_result # <<>>)

\* ------------------------------------------------ claims on the two blends
\* (1 + total_return) ** (252 / n) - 1 is certainly not the rational m: it
\* lies above -1, and it has the sign of total_return
CagrDiffersFrom(total_return, m) ==
    \/ RLe(m, RInt(-1))
    \/ RGt(total_return, RInt(0)) /\ RLe(m, RInt(0))
    \/ RLt(total_return, RInt(0)) /\ RGe(m, RInt(0))
    \/ total_return = RInt(0) /\ m # RInt(0)

\* two Sortino ratios are certainly different numbers: one is 0 and the other
\* is not, or one is cagr-based and the other mean-based over the same
\* deviation while the cagr differs from the annualised mean
RatiosDiffer(a, b) ==
    \/ a.zero # b.zero
    \/ /\ ~a.zero /\ ~b.zero
       /\ a.expr[1] = "sortino" /\ b.expr[1] = "sortino_mean"
       /\ a.expr[4] = b.expr[4]
       /\ CagrDiffersFrom(a.expr[2], RAdd(b.expr[2], <<1, 50>>))

\* two combined scores are certainly different numbers: blends over the same
\* historical ratio whose recent ratios differ
ScoresDiffer(a, b) ==
    \/ a.zero # b.zero
    \/ /\ ~a.zero /\ ~b.zero
       /\ a.expr[1] = "blend" /\ b.expr[1] = "blend"
       /\ a.expr[3] = b.expr[3]
       /\ RatiosDiffer(a.expr[2], b.expr[2])

\* the combined score the metrics calculator gives for the strategy returns
\* with the recent window as period_returns
CalculatorScore ==
    Get(calculate_enhanced_metrics(locals.strategy_returns, <<locals.recent_returns>>),
        "combined_score", Zero)

\* C22: the combined score of backtest_ma_strategy, 0.3 * Sortino(full) +
\* 0.7 * Sortino(recent), is the combined_score of
\* calculate_enhanced_metrics(full, period_returns=recent)
C22_SameCombinedScore ==
    (bpc \in {"trades", "current"} /\ DOMAIN locals.strategy_returns # {}) =>
        ~ScoresDiffer(Get(locals.all_period_metrics, "combined_score", Zero), CalculatorScore)

\* ------------------------------------------------ claims on the trial's frame
\* C23: no step of backtest_ma_strategy, for any strategy and window and also
\* on the path through its except clause, changes the price data or its own
\* arguments, and none writes what the sweep or another trial reads (the
\* futures, best_*, the results, the analyzer's and the scheduler's fields):
\* a trial writes its own locals and its return value only
C23_TrialLeavesDataUnchanged ==
    [][/\ data' = data
       /\ ma_period' = ma_period
       /\ trial_strategy' = trial_strategy
       /\ UNCHANGED <<optVars, envVars>>]_vars

\* a rebalancing trial on a frame of falling prices has returned its result
C23_Witness ==
    /\ bpc = "returned"
    /\ ret # {}
    /\ trial_strategy = "rebalance_60_40"
    /\ Len(data.BTC) = 2
    /\ data.BTC[2] < data.BTC[1]

\* ------------------------------------------------ claims on the scheduler
\* C24: once error_count has reached max_errors, run_analysis has returned
\* False and run_scheduler starts no further analysis run
C24_StopsAfterMaxErrors ==
    [][(spc = "idle" /\ Failed(error_count)) => (~last_return /\ calls' = calls)]_vars

\* the step on which a run_analysis call returns
CallReturns == spc # "idle" /\ spc' = "idle"

\* the call that returns has failed: run_full_analysis gave it no results
CallFailed == sched_results = <<>>

\* C25: between calls, error_count is the number of calls since the last
\* successful one (all of them failed); a failed call adds 1 to error_count
\* and leaves update_count and last_update as they are; a successful call
\* sets error_count to 0 and adds 1 to update_count, which starts at 0 and so
\* counts the successful calls; no other step changes the three fields
C25_CountersTrackOutcomes ==
    /\ [](spc = "idle" => error_count = calls - last_update)
    /\ [](update_count <= last_update /\ last_update <= calls)
    /\ [][CallReturns =>
             IF CallFailed
             THEN /\ error_count' = error_count + 1
                  /\ update_count' = update_count
                  /\ last_update' = last_update
             ELSE /\ error_count' = 0
                  /\ update_count' = update_count + 1
                  /\ last_update' = calls]_vars
    /\ [][~CallReturns => UNCHANGED <<error_count, update_count, last_update>>]_vars

\* two successful calls and three failed ones, the last two in a row
C25_Witness ==
    /\ spc = "idle"
    /\ calls = 5
    /\ update_count = 2
    /\ error_count = 2

\* ------------------------------------------- claims on the StrategyResult
\* C26: the StrategyResult find_optimal_ma returns carries, when its
\* backtest_data is not empty, the window and the combined score of that very
\* trial, and its optimal_ma lies in the candidate range of the strategy
\* (5..100 single-asset, 10..60 rebalancing), whatever the order in which the
\* trials completed
C26_ResultMatchesItsTrial ==
    pc = "returned" =>
        LET r == strategy_result[1]
        IN  /\ r.backtest_data # {} =>
                  /\ HasKey(r.backtest_data, "ma_period")
                  /\ r.optimal_ma = Get(r.backtest_data, "ma_period", 0)
                  /\ HasKey(r.backtest_data, "combined_score")
                  /\ r.combined_score = Get(r.backtest_data, "combined_score", SentinelScore)
            /\ r.optimal_ma \in FullRange(strategy_type)

\* the selected trial is the one submitted last, it completed first, and the
\* StrategyResult is returned
C26_Witness ==
    /\ pc = "returned"
    /\ strategy_result[1].backtest_data # {}
    /\ strategy_result[1].optimal_ma = Range[Len(Range)]
    /\ completion[1] = Range[Len(Range)]

\* ------------------------------------- claims on the current classification
\* the last element of the 'signals' entry of the returned dict
LastSignal ==
    LET signals == Get(ret, "signals", <<>>)
    IN  signals[SetMax(DOMAIN signals)]

\* C27: in every returned result the current signal is a buy (strong or weak)
\* exactly when the last element of the signal series is 1, and a sell
\* (strong or weak) exactly when it is 0, also when the window is longer than
\* the series and the latest MA is undefined
C27_ClassificationAgreesWithSignal ==
    (bpc = "returned" /\ ret # {}) =>
        LET current_signal == Get(ret, "current_signal", "N/A")
        IN  /\ current_signal \in {"strong buy", "weak buy"} <=> LastSignal = RInt(1)
            /\ current_signal \in {"strong sell", "weak sell"} <=> LastSignal = RInt(0)

\* a rising two-row series under a window of 3: no MA, the signal is flat and
\* the classification a weak sell
C27_Witness ==
    /\ bpc = "returned"
    /\ ret # {}
    /\ ma_period > Len(data.BTC)
    /\ data.BTC[2] > data.BTC[1]
    /\ IsNaN(locals.ma[2])
    /\ LastSignal = RInt(0)
    /\ Get(ret, "current_signal", "N/A") = "weak sell"

====
